---- MODULE Spec2Model ----
(***************************************************************************)
(* Model of gosolarman: the Solarman V5 frame codec (solarmanPackager,    *)
(* Parse, CRC, CheckSum) and the link manager (solarmanTransporter).       *)
(*                                                                         *)
(* The specifications share the variables:                                 *)
(*   Spec        callers running Send / Connect / Close on one             *)
(*               transporter, the socket operations' outcomes chosen by    *)
(*               the environment;                                          *)
(*   SpecCodec   one packager encoding requests and parsing frames that    *)
(*               arrive from the device or the network;                    *)
(*   SpecSession one caller's run of Encode, Verify and Decode on the      *)
(*               replies to its requests, long enough for the sequence     *)
(*               counter to wrap;                                          *)
(*   SpecHeader  ParseHeader applied to header inputs;                     *)
(*   SpecRace    callers running Encode on one packager at the same time;  *)
(*   SpecLive    Spec under fair scheduling.                               *)
(***************************************************************************)
EXTENDS Integers, Sequences, FiniteSets, TLC

(***************************************************************************)
(* Bounds of the model.                                                    *)
(***************************************************************************)
\* callers (goroutines) sharing the transporter
NumProcs == 2
\* calls of Send / Connect / Close made in one run, all callers together
MaxCalls == 2
\* successful dials in one run (the connection ids 1..MaxDials)
MaxDials == 3

Procs == 1..NumProcs
ConnIds == 1..MaxDials
\* the nil net.Conn
Nil == 0

VARIABLES
    \* ---- solarmanTransporter ----
    mu,        \* sync.Mutex: Nil when free, else the caller holding it
    conn,      \* mb.conn: Nil or the id of the connection held
    \* ---- the sockets (environment) ----
    dialed,    \* number of connections dialed so far; ids are 1..dialed
    closed,    \* ids of the connections on which Close() was called
    wire,      \* wire[c]: the requests completely written to connection c
    consumed,  \* consumed[c]: how many responses were read from connection c
    crashed,   \* the process died of a nil dereference
    \* ---- the callers ----
    pc,        \* pc[p]: where caller p stands
    req,       \* req[p]: aduRequest of p's current Send (a request id)
    err,       \* err[p]: Send's local err after the last write or read
    seen,      \* seen[p]: the handle Close's nil test saw
    ret,       \* ret[p]: what p's last call returned
    ops,       \* ops[p]: socket operations of p's current call, in order
    calls,     \* calls started so far
    \* ---- solarmanPackager ----
    SlaveID,   \* mb.SlaveID
    serial,    \* mb.serial, the sequence counter
    \* ---- the frame at hand ----
    pdu,       \* the PDU given to the last Encode
    adu,       \* the bytes Encode produced, or that arrived from the device
    origin,    \* "none", "encode" or "device": where adu comes from
    tampered,  \* the (0-based) offset of the byte of adu changed on the way, or -1
    decoded,   \* what Parse made of adu, once Decode ran
    sent,      \* adu as Encode or the device produced it, before any change
    \* ---- the caller of the packager ----
    aduRequest, \* the request the caller keeps for Verify
    verified,  \* what Verify returned for (aduRequest, adu), "none" before
    encodes,   \* Encode calls so far
    parsed,    \* what ParseHeader returned for adu, once it ran
    \* ---- callers running Encode at the same time ----
    epc,       \* epc[p]: where caller p stands in Encode
    reg,       \* reg[p]: the value of mb.serial that p's increment loaded
    issued     \* the frames the Encode calls returned, in order of return

linkVars == <<mu, conn, dialed, closed, wire, consumed, crashed,
              pc, req, err, seen, ret, ops, calls>>

callerVars == <<aduRequest, verified, encodes, parsed>>

raceVars == <<epc, reg, issued>>

codecVars == <<SlaveID, serial, pdu, adu, origin, tampered, decoded, sent, callerVars,
               raceVars>>

vars == <<linkVars, codecVars>>

NoRet == [err |-> "none", resp |-> 0]

LinkInit ==
    /\ mu = Nil
    /\ conn = Nil
    /\ dialed = 0
    /\ closed = {}
    /\ wire = [c \in ConnIds |-> <<>>]
    /\ consumed = [c \in ConnIds |-> 0]
    /\ crashed = FALSE
    /\ pc = [p \in Procs |-> "idle"]
    /\ req = [p \in Procs |-> 0]
    /\ err = [p \in Procs |-> "nil"]
    /\ seen = [p \in Procs |-> Nil]
    /\ ret = [p \in Procs |-> NoRet]
    /\ ops = [p \in Procs |-> <<>>]
    /\ calls = 0

(***************************************************************************)
(* Helpers on the callers' state.                                          *)
(***************************************************************************)
Goto(p, l) == pc' = [pc EXCEPT ![p] = l]

\* back in the caller: the call's frame (its locals and results) is gone
Leave(p) ==
    /\ pc' = [pc EXCEPT ![p] = "idle"]
    /\ req' = [req EXCEPT ![p] = 0]
    /\ err' = [err EXCEPT ![p] = "nil"]
    /\ seen' = [seen EXCEPT ![p] = Nil]
    /\ ret' = [ret EXCEPT ![p] = NoRet]
    /\ ops' = [ops EXCEPT ![p] = <<>>]

Log(p, o) == ops' = [ops EXCEPT ![p] = Append(@, o)]
Return(p, e, r) == ret' = [ret EXCEPT ![p] = [err |-> e, resp |-> r]]

\* mutant of IsEPIPE: every failure counts as a broken pipe
IsFailure(e) == e # "ok"

\* errors.Is(err, syscall.EPIPE)
IsEPIPE(e) == e = "EPIPE"

\* mutant of Lock: the lock is taken without waiting for it to be free
LockNoWait(p) == mu' = p

\* mb.mu.Lock(): blocks until the mutex is free
Lock(p) == mu = Nil /\ mu' = p

\* the deferred mb.mu.Unlock()
Unlock(p) == mu' = Nil

\* conn.Write on handle c: an open socket may take the whole request, take
\* part of it (short), fail with EPIPE or fail otherwise; a socket closed on
\* this side fails with net.ErrClosed, which is not EPIPE
WriteOutcomes(c) ==
    IF c \in closed THEN {"other"} ELSE {"ok", "EPIPE", "other", "short"}

\* conn.Read on handle c.  The device answers every request it receives, in
\* order, so data can be read only while a request written to c is still
\* unanswered to the reader; a read may also fail before the answer arrives
\* (EPIPE, or another error such as a timeout or EOF)
ReadOutcomes(c) ==
    IF c \in closed THEN {"other"}
    ELSE {"EPIPE", "other"} \cup
         (IF consumed[c] < Len(wire[c]) THEN {"ok"} ELSE {})

(***************************************************************************)
(* Send, lines 100-132, one action per socket operation.                   *)
(***************************************************************************)
CallSend(p) ==
    /\ ~crashed /\ pc[p] = "idle" /\ calls < MaxCalls
    /\ calls' = calls + 1
    /\ req' = [req EXCEPT ![p] = calls + 1]
    /\ err' = [err EXCEPT ![p] = "nil"]
    /\ ops' = [ops EXCEPT ![p] = <<>>]
    /\ ret' = [ret EXCEPT ![p] = NoRet]
    /\ Goto(p, "s_lock")
    /\ UNCHANGED <<mu, conn, dialed, closed, wire, consumed, crashed, seen>>
    /\ UNCHANGED codecVars

SendLock(p) ==
    /\ ~crashed /\ pc[p] = "s_lock"
    /\ Lock(p)
    /\ Goto(p, "s_connect")
    /\ UNCHANGED <<conn, dialed, closed, wire, consumed, crashed,
                   req, err, seen, ret, ops, calls>>
    /\ UNCHANGED codecVars

\* d.Dial inside connect(): on success mb.conn is the new connection
DialOk(p) ==
    /\ dialed < MaxDials
    /\ dialed' = dialed + 1
    /\ conn' = dialed + 1
    /\ Log(p, "dial_ok")

DialFail(p) ==
    /\ UNCHANGED <<dialed, conn>>
    /\ Log(p, "dial_fail")

\* mb.connect() at line 103
SendConnect(p) ==
    /\ ~crashed /\ pc[p] = "s_connect"
    /\ \/ /\ conn # Nil
          /\ Log(p, "reuse")
          /\ Goto(p, "s_write1")
          /\ UNCHANGED <<conn, dialed, ret>>
       \/ /\ conn = Nil
          /\ DialOk(p)
          /\ Goto(p, "s_write1")
          /\ UNCHANGED ret
       \/ /\ conn = Nil
          /\ DialFail(p)
          /\ Return(p, "connect", 0)
          /\ Goto(p, "s_unlock")
    /\ UNCHANGED <<mu, closed, wire, consumed, crashed, req, err, seen, calls>>
    /\ UNCHANGED codecVars

\* mutant of write: a request written whole is written a second time
writeTwice(p, o) ==
    /\ o \in WriteOutcomes(conn)
    /\ wire' = IF o = "ok" THEN [wire EXCEPT ![conn] = @ \o <<req[p], req[p]>>] ELSE wire
    /\ err' = [err EXCEPT ![p] = IF o = "ok" THEN "nil" ELSE o]
    /\ Log(p, "w_" \o o)

\* mb.write(aduRequest): the request reaches the wire only when written whole
write(p, o) ==
    /\ o \in WriteOutcomes(conn)
    /\ wire' = IF o = "ok" THEN [wire EXCEPT ![conn] = Append(@, req[p])] ELSE wire
    /\ err' = [err EXCEPT ![p] = IF o = "ok" THEN "nil" ELSE o]
    /\ Log(p, "w_" \o o)

\* where Send goes after the first write, lines 107-118
AfterFirstWrite(o) == IF IsEPIPE(o) THEN "s_reconnect1" ELSE "s_read1"

\* line 107 and the test of line 109
SendWrite1(p) ==
    /\ ~crashed /\ pc[p] = "s_write1"
    /\ \E o \in {"ok", "EPIPE", "other", "short"} :
          /\ write(p, o)
          /\ Goto(p, AfterFirstWrite(o))
    /\ UNCHANGED <<mu, conn, dialed, closed, consumed, crashed,
                   req, seen, ret, calls>>
    /\ UNCHANGED codecVars

\* mutant of reconnect: the handle is dropped without being closed
reconnectWithoutClose(p) ==
    IF conn = Nil
    THEN UNCHANGED <<closed, conn, ops>>
    ELSE /\ closed' = closed
         /\ conn' = Nil
         /\ Log(p, "close")

\* mutant of reconnect: the closed handle stays in mb.conn
reconnectKeepsHandle(p) ==
    IF conn = Nil
    THEN UNCHANGED <<closed, conn, ops>>
    ELSE /\ closed' = closed \cup {conn}
         /\ conn' = conn
         /\ Log(p, "close")

\* reconnect(), lines 200-209, up to the call of connect(): the handle held
\* is closed and mb.conn set to nil
reconnect(p) ==
    IF conn = Nil
    THEN UNCHANGED <<closed, conn, ops>>
    ELSE /\ closed' = closed \cup {conn}
         /\ conn' = Nil
         /\ Log(p, "close")

SendReconnect(p, from, to) ==
    /\ ~crashed /\ pc[p] = from
    /\ reconnect(p)
    /\ Goto(p, to)
    /\ UNCHANGED <<mu, dialed, wire, consumed, crashed, req, err,
                   seen, ret, calls>>
    /\ UNCHANGED codecVars

\* the connect() that ends reconnect(); its failure ends Send (lines 110-112,
\* 120-122)
SendRedial(p, from, to) ==
    /\ ~crashed /\ pc[p] = from
    /\ \/ /\ DialOk(p)
          /\ Goto(p, to)
          /\ UNCHANGED ret
       \/ /\ DialFail(p)
          /\ Return(p, "reconnect", 0)
          /\ Goto(p, "s_unlock")
    /\ UNCHANGED <<mu, closed, wire, consumed, crashed, req, err, seen, calls>>
    /\ UNCHANGED codecVars

\* the retried writes, lines 113-115 and 123-125: any failure ends Send
SendRewrite(p, from, to) ==
    /\ ~crashed /\ pc[p] = from
    /\ \E o \in {"ok", "EPIPE", "other", "short"} :
          /\ write(p, o)
          /\ IF o = "ok"
             THEN Goto(p, to) /\ UNCHANGED ret
             ELSE Return(p, "write", 0) /\ Goto(p, "s_unlock")
    /\ UNCHANGED <<mu, conn, dialed, closed, consumed, crashed,
                   req, seen, calls>>
    /\ UNCHANGED codecVars

\* mb.read(): the response read is the oldest one not yet read from the
\* connection, named by the request it answers
read(p, o) ==
    /\ o \in ReadOutcomes(conn)
    /\ consumed' = IF o = "ok" THEN [consumed EXCEPT ![conn] = @ + 1] ELSE consumed
    /\ err' = [err EXCEPT ![p] = IF o = "ok" THEN "nil" ELSE o]
    /\ Log(p, "r_" \o o)

ReadBytes(o) == IF o = "ok" THEN wire[conn][consumed[conn] + 1] ELSE 0

\* line 118 and the test of line 119; without EPIPE Send returns at line 131
\* with whatever read() gave
SendRead1(p) ==
    /\ ~crashed /\ pc[p] = "s_read1"
    /\ \E o \in {"ok", "EPIPE", "other"} :
          /\ read(p, o)
          /\ IF IsEPIPE(o)
             THEN Goto(p, "s_reconnect2") /\ UNCHANGED ret
             ELSE /\ Return(p, IF o = "ok" THEN "nil" ELSE "rawread", ReadBytes(o))
                  /\ Goto(p, "s_unlock")
    /\ UNCHANGED <<mu, conn, dialed, closed, wire, crashed,
                   req, seen, calls>>
    /\ UNCHANGED codecVars

\* mutant of SendRead2: a broken pipe on the retried read starts another
\* recovery
SendRead2Again(p) ==
    /\ ~crashed /\ pc[p] = "s_read2"
    /\ \E o \in {"ok", "EPIPE", "other"} :
          /\ read(p, o)
          /\ IF o = "ok"
             THEN Return(p, "nil", ReadBytes(o)) /\ Goto(p, "s_unlock")
             ELSE IF IsEPIPE(o)
             THEN UNCHANGED ret /\ Goto(p, "s_reconnect2")
             ELSE Return(p, "read", 0) /\ Goto(p, "s_unlock")
    /\ UNCHANGED <<mu, conn, dialed, closed, wire, crashed,
                   req, seen, calls>>
    /\ UNCHANGED codecVars

\* lines 126-128, then the return of line 131
SendRead2(p) ==
    /\ ~crashed /\ pc[p] = "s_read2"
    /\ \E o \in {"ok", "EPIPE", "other"} :
          /\ read(p, o)
          /\ IF o = "ok"
             THEN Return(p, "nil", ReadBytes(o))
             ELSE Return(p, "read", 0)
          /\ Goto(p, "s_unlock")
    /\ UNCHANGED <<mu, conn, dialed, closed, wire, crashed,
                   req, seen, calls>>
    /\ UNCHANGED codecVars

\* the deferred Unlock, then back in the caller
SendUnlock(p) ==
    /\ ~crashed /\ pc[p] = "s_unlock"
    /\ Unlock(p)
    /\ Leave(p)
    /\ UNCHANGED <<conn, dialed, closed, wire, consumed, crashed, calls>>
    /\ UNCHANGED codecVars

Send(p) ==
    \/ CallSend(p)
    \/ SendLock(p)
    \/ SendConnect(p)
    \/ SendWrite1(p)
    \/ SendReconnect(p, "s_reconnect1", "s_redial1")
    \/ SendRedial(p, "s_redial1", "s_write2")
    \/ SendRewrite(p, "s_write2", "s_read1")
    \/ SendRead1(p)
    \/ SendReconnect(p, "s_reconnect2", "s_redial2")
    \/ SendRedial(p, "s_redial2", "s_write3")
    \/ SendRewrite(p, "s_write3", "s_read2")
    \/ SendRead2(p)
    \/ SendUnlock(p)

(***************************************************************************)
(* Connect, lines 168-173.                                                 *)
(***************************************************************************)
CallConnect(p) ==
    /\ ~crashed /\ pc[p] = "idle" /\ calls < MaxCalls
    /\ calls' = calls + 1
    /\ ops' = [ops EXCEPT ![p] = <<>>]
    /\ ret' = [ret EXCEPT ![p] = NoRet]
    /\ Goto(p, "k_lock")
    /\ UNCHANGED <<mu, conn, dialed, closed, wire, consumed, crashed,
                   req, err, seen>>
    /\ UNCHANGED codecVars

ConnectLock(p) ==
    /\ ~crashed /\ pc[p] = "k_lock"
    /\ Lock(p)
    /\ Goto(p, "k_connect")
    /\ UNCHANGED <<conn, dialed, closed, wire, consumed, crashed,
                   req, err, seen, ret, ops, calls>>
    /\ UNCHANGED codecVars

ConnectConnect(p) ==
    /\ ~crashed /\ pc[p] = "k_connect"
    /\ \/ /\ conn # Nil
          /\ Log(p, "reuse")
          /\ Return(p, "nil", 0)
          /\ UNCHANGED <<conn, dialed>>
       \/ /\ conn = Nil
          /\ DialOk(p)
          /\ Return(p, "nil", 0)
       \/ /\ conn = Nil
          /\ DialFail(p)
          /\ Return(p, "dial", 0)
    /\ Goto(p, "k_unlock")
    /\ UNCHANGED <<mu, closed, wire, consumed, crashed, req, err, seen, calls>>
    /\ UNCHANGED codecVars

ConnectUnlock(p) ==
    /\ ~crashed /\ pc[p] = "k_unlock"
    /\ Unlock(p)
    /\ Leave(p)
    /\ UNCHANGED <<conn, dialed, closed, wire, consumed, crashed, calls>>
    /\ UNCHANGED codecVars

Connect(p) == CallConnect(p) \/ ConnectLock(p) \/ ConnectConnect(p) \/ ConnectUnlock(p)

(***************************************************************************)
(* Close, lines 215-220.  It takes no lock, so its two reads of mb.conn    *)
(* (the nil test and the receiver of Close) race with Send's assignments:  *)
(* the handle closed is the one the test saw or the one held now, and a    *)
(* nil receiver is a nil dereference.                                      *)
(***************************************************************************)
\* the call, and its test: if mb.conn != nil
CloseTest(p) ==
    /\ ~crashed /\ pc[p] = "idle" /\ calls < MaxCalls
    /\ calls' = calls + 1
    /\ IF conn = Nil
       THEN UNCHANGED <<pc, seen>>
       ELSE /\ seen' = [seen EXCEPT ![p] = conn]
            /\ Goto(p, "c_close")
    /\ UNCHANGED <<mu, conn, dialed, closed, wire, consumed, crashed,
                   req, err, ret, ops>>
    /\ UNCHANGED codecVars

\* what Close() leaves in mb.conn
CloseLeaves(c) == c

\* err = mb.conn.Close()
CloseClose(p) ==
    /\ ~crashed /\ pc[p] = "c_close"
    /\ \E h \in {seen[p], conn} :
          IF h = Nil
          THEN /\ crashed' = TRUE
               /\ UNCHANGED <<closed, conn, pc, req, err, seen, ret, ops>>
          ELSE /\ closed' = closed \cup {h}
               /\ conn' = CloseLeaves(conn)
               /\ Leave(p)
               /\ UNCHANGED crashed
    /\ UNCHANGED <<mu, dialed, wire, consumed, calls>>
    /\ UNCHANGED codecVars

Close(p) == CloseTest(p) \/ CloseClose(p)

LinkNext ==
    \/ \E p \in Procs : Send(p)
    \/ \E p \in Procs : Connect(p)
    \/ \E p \in Procs : Close(p)

(***************************************************************************)
(* Protocol constants, solarman_client.go lines 17-43.                     *)
(***************************************************************************)
StartByte == 165
EndByte == 21
ControlCodeRequest == 17680
FrameType == 2
SensorType == 0
TotalWorkingTime == 0
PowerOnTime == 0
OffsetTime == 0

(***************************************************************************)
(* Bounds and inputs of the codec.                                         *)
(***************************************************************************)
\* longest PDU data given to Encode or sent by the device
MaxData == 2
\* Encode calls in one run
MaxEncodes == 1
\* Encode calls in one run of callers that share the packager
MaxRace == 3
\* Encode calls in one run of a single caller's session: the counter is a
\* byte, and wraps at the 256th call
MaxSession == 257

Bytes == 0..255
\* byte values the inputs are drawn from
DataBytes == {0, 1, 255}
Slaves == {1, 17}
FunctionCodes == {3, 16}
\* the data logger's serial number, 0x12345678 as <<low, high>>
LoggerSerial == <<22136, 4660>>
\* what is added (mod 256) to a byte changed on the way
TamperDeltas == {1, 128, 255}

RECURSIVE SeqsUpTo(_, _)
SeqsUpTo(S, n) ==
    IF n = 0 THEN {<<>>}
    ELSE LET shorter == SeqsUpTo(S, n - 1)
         IN shorter \cup {Append(q, b) : q \in {x \in shorter : Len(x) = n - 1}, b \in S}

DataSet == SeqsUpTo(DataBytes, MaxData)

(***************************************************************************)
(* Go slices: data[i] and data[lo:hi], offsets from 0.  A slice expression *)
(* with lo > hi or hi beyond the length aborts the program (run-time       *)
(* panic); InRange is its bounds check.                                    *)
(***************************************************************************)
At(data, i) == data[i + 1]
InRange(data, lo, hi) == 0 <= lo /\ lo <= hi /\ hi <= Len(data)
Slice(data, lo, hi) == SubSeq(data, lo + 1, hi)

\* A uint32 is kept as its two 16-bit halves <<low, high>>, its value being
\* low + 65536 * high: the checker's integers are 32-bit signed.
U32(n) == <<n % 65536, n \div 65536>>

\* mutant of Uint16LE: the bytes are taken big-endian
Uint16BE(b) == 256 * b[1] + b[2]

\* binary.LittleEndian.Uint16 / Uint32
Uint16LE(b) == b[1] + 256 * b[2]
Uint32LE(b) == <<b[1] + 256 * b[2], b[3] + 256 * b[4]>>

\* uint16ToBytes / uint32ToBytes with binary.LittleEndian
uint16ToBytes(i) == <<i % 256, (i \div 256) % 256>>
uint32ToBytes(u) == uint16ToBytes(u[1]) \o uint16ToBytes(u[2])

\* a ^ b on n-bit values
RECURSIVE Xor(_, _, _)
Xor(a, b, n) ==
    IF n = 0 THEN 0 ELSE ((a + b) % 2) + 2 * Xor(a \div 2, b \div 2, n - 1)

\* x with the bit of value b (a power of 2) inverted
Flip(x, b) == IF (x \div b) % 2 = 1 THEN x - b ELSE x + b

\* crc ^ 0xA001 on 16 bits: bits 15, 13 and 0 inverted
XorA001(crc) == Flip(Flip(Flip(crc, 32768), 8192), 1)

\* crc ^ uint16(v): only the low byte changes
XorByte(crc, v) == 256 * (crc \div 256) + Xor(crc % 256, v, 8)

\* the byte sum (mod 256) of b[lo..hi]; the sum of the halves is the sum the
\* loop of CheckSum accumulates in its byte, addition mod 256 being associative
RECURSIVE SumBytes(_, _, _)
SumBytes(b, lo, hi) ==
    IF lo > hi THEN 0
    ELSE IF lo = hi THEN b[lo] % 256
    ELSE LET mid == (lo + hi) \div 2
         IN (SumBytes(b, lo, mid) + SumBytes(b, mid + 1, hi)) % 256

\* mutant of CheckSum: only the ten header bytes are summed
CheckSumOfHeader(b) == SumBytes(b, 1, IF Len(b) < 10 THEN Len(b) ELSE 10)

\* CheckSum: the sum of the bytes in a byte (mod 256)
CheckSum(b) == SumBytes(b, 1, Len(b))

\* crc.go, the inner loop: 8 shifts, feeding back 0xA001
RECURSIVE crcShift(_, _)
crcShift(crc, k) ==
    IF k = 0 THEN crc
    ELSE crcShift(IF crc % 2 = 0 THEN crc \div 2
                  ELSE XorA001(crc \div 2), k - 1)

\* mutant of crcByte: the byte is not folded into the register
crcByteWithoutInput(crc, v) == crcShift(crc, 8)

\* crc.go, the body of the outer loop for the byte v
crcByte(crc, v) == crcShift(XorByte(crc, v), 8)

\* the register after the first n bytes of data, from 0xFFFF (the register
\* after n - 1 bytes is computed first, as c, then the n-th byte goes in)
RECURSIVE crcFold(_, _)
crcFold(data, n) ==
    IF n = 0 THEN 65535
    ELSE CHOOSE r \in {crcByte(c, data[n]) : c \in {crcFold(data, n - 1)}} : TRUE

\* CRCFromBytes: the result as [lo, hi]
CRCFromBytes(data) ==
    LET crc == crcFold(data, Len(data)) IN <<crc % 256, crc \div 256>>

\* CRC(SlaveID, pdu)
CRC(slave, p) == CRCFromBytes(<<slave, p.FunctionCode>> \o p.Data)

(***************************************************************************)
(* Encode, solarman_client.go lines 270-297.                               *)
(***************************************************************************)
\* the bytes Encode writes before the RTU segment: frame type, sensor type
\* and the three timing fields
RequestPrefix ==
    <<FrameType>> \o uint16ToBytes(SensorType) \o uint32ToBytes(U32(TotalWorkingTime))
        \o uint32ToBytes(U32(PowerOnTime)) \o uint32ToBytes(U32(OffsetTime))

\* payloadBytes
RequestPayload(slave, p) ==
    RequestPrefix \o <<slave, p.FunctionCode>> \o p.Data \o CRC(slave, p)

\* mutant of Encode: the length field also counts the checksum and end bytes
EncodeCountingTrailer(slave, logger, seq, p) ==
    LET payloadBytes == RequestPayload(slave, p)
        request == <<StartByte>> \o uint16ToBytes((Len(payloadBytes) + 2) % 65536)
                     \o uint16ToBytes(ControlCodeRequest) \o <<seq, 0>>
                     \o uint32ToBytes(logger) \o payloadBytes
    IN request \o <<CheckSum(Tail(request)), EndByte>>

\* the frame, given the value getNextSerial returned
Encode(slave, logger, seq, p) ==
    LET payloadBytes == RequestPayload(slave, p)
        request == <<StartByte>> \o uint16ToBytes(Len(payloadBytes) % 65536)
                     \o uint16ToBytes(ControlCodeRequest) \o <<seq, 0>>
                     \o uint32ToBytes(logger) \o payloadBytes
    IN request \o <<CheckSum(Tail(request)), EndByte>>

\* mutant of getNextSerial: the counter stops at 255
getNextSerialSaturating(s) == IF s = 255 THEN 255 ELSE s + 1

\* getNextSerial: mb.serial++ on a byte
getNextSerial(s) == (s + 1) % 256

(***************************************************************************)
(* Parse, types.go lines 46-168.                                           *)
(***************************************************************************)
NoHeader == [Start |-> 0, Length |-> 0, ControlCode |-> 0,
             SequenceNumber |-> 0, LoggerSerialNumber |-> U32(0)]
NoPDU == [FunctionCode |-> 0, Data |-> <<>>]
NoPayload == [FrameType |-> 0, Status |-> 0, TotalWorkingTime |-> U32(0),
              PowerOnTime |-> U32(0), OffsetTime |-> U32(0), ModbusRTUFrame |-> NoPDU]

\* the results of Parse: a Response, an error, or the abort of the program
Ok(h, pl, cs) == [kind |-> "ok", err |-> "nil", Header |-> h, Payload |-> pl, Checksum |-> cs]
Error(e) == [kind |-> "error", err |-> e, Header |-> NoHeader, Payload |-> NoPayload, Checksum |-> 0]
Panic == [kind |-> "panic", err |-> "slice bounds out of range", Header |-> NoHeader,
          Payload |-> NoPayload, Checksum |-> 0]
NotParsed == [kind |-> "none", err |-> "nil", Header |-> NoHeader, Payload |-> NoPayload,
              Checksum |-> 0]

\* ParseHeader, lines 105-154
ParseHeader(data) ==
    IF Len(data) < 11 THEN [err |-> "data too short", h |-> NoHeader]
    ELSE IF At(data, 0) # StartByte THEN [err |-> "invalid Start byte", h |-> NoHeader]
    ELSE [err |-> "nil",
          h |-> [Start |-> At(data, 0),
                 Length |-> Uint16LE(Slice(data, 1, 3)),
                 ControlCode |-> Uint16LE(Slice(data, 3, 5)),
                 SequenceNumber |-> Uint16LE(Slice(data, 5, 7)),
                 LoggerSerialNumber |-> Uint32LE(Slice(data, 7, 11))]]

\* mutant of parseRTUFrame: the data keeps the two CRC bytes
parseRTUFrameKeepingCRC(data) ==
    [FunctionCode |-> At(data, 1), Data |-> Slice(data, 2, Len(data))]

\* parseRTUFrame, lines 163-168
parseRTUFrame(data) ==
    [FunctionCode |-> At(data, 1), Data |-> Slice(data, 2, Len(data) - 2)]

\* mutant of RTUOffset: the RTU segment taken where Encode puts it
RTUOffsetOfRequest == 11 + 15

\* offset in the frame at which Parse takes the RTU segment (line 71)
RTUOffset == 25

\* lines 71-94, once the header, checksum and length checks passed
ParseRTU(data, header) ==
    IF ~InRange(data, RTUOffset, Len(data) - 2) THEN Panic
    ELSE LET rtu == Slice(data, RTUOffset, Len(data) - 2) IN
         IF Len(rtu) < 5 THEN Error("invalid RTU frame")
         ELSE IF Slice(rtu, Len(rtu) - 2, Len(rtu))
                    # CRCFromBytes(Slice(rtu, 0, Len(rtu) - 2))
         THEN Error("CRC mismatch")
         ELSE Ok(header,
                 [FrameType |-> At(data, 11),
                  Status |-> At(data, 12),
                  TotalWorkingTime |-> Uint32LE(Slice(data, 13, 17)),
                  PowerOnTime |-> Uint32LE(Slice(data, 17, 21)),
                  OffsetTime |-> Uint32LE(Slice(data, 21, 25)),
                  ModbusRTUFrame |-> parseRTUFrame(rtu)],
                 At(data, Len(data) - 1))

\* Parse, lines 46-95
Parse(data) ==
    IF Len(data) < 11 THEN Error("data too short")
    ELSE LET hd == ParseHeader(Slice(data, 0, 11)) IN
         IF hd.err # "nil" THEN Error(hd.err)
         ELSE IF CheckSum(Slice(data, 1, Len(data) - 2)) # At(data, Len(data) - 2)
         THEN Error("checksum mismatch")
         ELSE IF ~InRange(data, 11, Len(data) - 2) THEN Panic
         ELSE IF hd.h.Length # Len(Slice(data, 11, Len(data) - 2)) % 65536
         THEN Error("invalid Length")
         ELSE ParseRTU(data, hd.h)

\* Decode, lines 307-313: Parse, and on success the PDU of the payload
Decode(data) == Parse(data)

(***************************************************************************)
(* The device and the network: the frames that can arrive.                 *)
(***************************************************************************)
ControlCodeResponse == 5392

\* a frame with a correct checksum and end marker around a header and payload
FramedAs(cc, logger, declared, seq, payload) ==
    LET body == uint16ToBytes(declared) \o uint16ToBytes(cc)
                  \o <<seq, 0>> \o uint32ToBytes(logger) \o payload
    IN <<StartByte>> \o body \o <<CheckSum(body), EndByte>>

\* such a frame as the addressed logger sends it
Framed(declared, seq, payload) ==
    FramedAs(ControlCodeResponse, LoggerSerial, declared, seq, payload)

\* another logger's serial number, 0x12345679
OtherLogger == <<22137, 4660>>

\* the payload of a response: frame type, status, the timing counters and
\* the RTU segment with its CRC
ResponsePayloadBytes(slave, p) ==
    <<FrameType, 1>> \o uint32ToBytes(U32(16)) \o uint32ToBytes(U32(32))
        \o uint32ToBytes(U32(48))
        \o <<slave, p.FunctionCode>> \o p.Data \o CRC(slave, p)

(***************************************************************************)
(* Verify, solarman_client.go lines 323-368.  The result is "nil", the     *)
(* error, or "panic" when the program aborts.  The arguments of the        *)
(* sequence-mismatch error include binary.BigEndian.Uint16 of the one-byte *)
(* slices aduRequest[5:6] and aduResponse[5:6] (lines 344-345): Uint16     *)
(* reads b[1], which is out of range for a slice of length 1.              *)
(***************************************************************************)
\* binary.BigEndian.Uint16(b) returns: b has at least two bytes
Uint16Defined(b) == Len(b) >= 2

\* lines 341-346
VerifySequence(requestSequence, responseSequence) ==
    IF requestSequence = responseSequence THEN "nil"
    ELSE IF Uint16Defined(requestSequence) /\ Uint16Defined(responseSequence)
    THEN "sequence number mismatch"
    ELSE "panic"

\* requestControlCode - 0x3000 on a uint16
ExpectedControlCode(requestControlCode) == (requestControlCode - 12288) % 65536

Verify(request, response) ==
    IF Len(response) < 11 THEN "response too short"
    ELSE IF At(response, 0) # StartByte THEN "invalid start byte"
    ELSE IF CheckSum(Slice(response, 1, Len(response) - 2))
               # At(response, Len(response) - 2)
    THEN "checksum mismatch"
    ELSE IF ~InRange(request, 5, 6) THEN "panic"
    ELSE IF VerifySequence(Slice(request, 5, 6), Slice(response, 5, 6)) # "nil"
    THEN VerifySequence(Slice(request, 5, 6), Slice(response, 5, 6))
    ELSE IF Uint16LE(Slice(response, 3, 5))
               # ExpectedControlCode(Uint16LE(Slice(request, 3, 5)))
    THEN "control code mismatch"
    ELSE IF ~InRange(request, 7, 11) THEN "panic"
    ELSE IF Slice(request, 7, 11) # Slice(response, 7, 11)
    THEN "logger serial number mismatch"
    ELSE "nil"

(***************************************************************************)
(* The packager's operations as actions.                                   *)
(***************************************************************************)
\* ParseHeader not yet called
NoHeaderResult == [err |-> "none", h |-> NoHeader]

\* no caller is in Encode
NoEncode ==
    /\ epc = [p \in Procs |-> "idle"]
    /\ reg = [p \in Procs |-> 0]
    /\ issued = <<>>

\* no frame at hand, nothing encoded yet
NoFrame ==
    /\ NoEncode
    /\ pdu = NoPDU
    /\ adu = <<>>
    /\ sent = <<>>
    /\ origin = "none"
    /\ tampered = -1
    /\ decoded = NotParsed
    /\ aduRequest = <<>>
    /\ verified = "none"
    /\ parsed = NoHeaderResult

CodecInit ==
    /\ SlaveID \in Slaves
    /\ serial = 0
    /\ encodes = 0
    /\ NoFrame

\* the packager of a transporter-only run
CodecIdle ==
    /\ SlaveID = 1
    /\ serial = 0
    /\ encodes = 0
    /\ NoFrame

\* mb.Encode(pdu): the counter advances, the frame carries its new value;
\* the caller keeps the frame as the request
EncodeStep(fc, data) ==
    /\ origin = "none"
    /\ pdu' = [FunctionCode |-> fc, Data |-> data]
    /\ serial' = getNextSerial(serial)
    /\ encodes' = encodes + 1
    /\ adu' = Encode(SlaveID, LoggerSerial, getNextSerial(serial),
                     [FunctionCode |-> fc, Data |-> data])
    /\ sent' = adu'
    /\ aduRequest' = adu'
    /\ origin' = "encode"
    /\ UNCHANGED <<SlaveID, tampered, decoded, verified, parsed>>
    /\ UNCHANGED <<linkVars, raceVars>>

\* mb.Encode(pdu), for any PDU
EncodeCall(fc, data) ==
    /\ encodes < MaxEncodes
    /\ EncodeStep(fc, data)

\* a response leaves the device addressed; its length field is right or
\* too large by `wrong`
Receive(fc, data, wrong) ==
    LET payload == ResponsePayloadBytes(SlaveID, [FunctionCode |-> fc, Data |-> data])
    IN /\ origin = "none"
       /\ adu' = Framed(Len(payload) + wrong, 1, payload)
       /\ sent' = adu'
       /\ origin' = "device"
       /\ UNCHANGED <<SlaveID, serial, pdu, tampered, decoded, callerVars>>
       /\ UNCHANGED <<linkVars, raceVars>>

\* the shortest response payload
ShortestPayload == ResponsePayloadBytes(1, [FunctionCode |-> 3, Data |-> <<>>])

\* a frame leaves the device that carries only the first `cut` bytes of a
\* response payload, and declares them
ReceiveShort(cut, wrong) ==
    /\ origin = "none"
    /\ cut < Len(ShortestPayload)
    /\ adu' = Framed(cut + wrong, 1, SubSeq(ShortestPayload, 1, cut))
    /\ sent' = adu'
    /\ origin' = "device"
    /\ UNCHANGED <<SlaveID, serial, pdu, tampered, decoded, callerVars>>
    /\ UNCHANGED <<linkVars, raceVars>>

\* the read returns only the first n bytes of what was sent
Fragment(n) ==
    /\ origin = "device" /\ decoded.kind = "none" /\ tampered = -1
    /\ n < Len(adu)
    /\ adu' = SubSeq(adu, 1, n)
    /\ origin' = "fragment"
    /\ UNCHANGED <<SlaveID, serial, pdu, tampered, decoded, sent, callerVars>>
    /\ UNCHANGED <<linkVars, raceVars>>

\* one byte of the frame changes on its way
Tamper(i, d) ==
    /\ origin \in {"encode", "device"} /\ decoded.kind = "none"
    /\ tampered = -1
    /\ i < Len(adu)
    /\ adu' = [adu EXCEPT ![i + 1] = (@ + d) % 256]
    /\ tampered' = i
    /\ UNCHANGED <<SlaveID, serial, pdu, origin, decoded, sent, callerVars>>
    /\ UNCHANGED <<linkVars, raceVars>>

\* the changed byte lies in the RTU segment, before its CRC
InRTUBody(data, i) == RTUOffset <= i /\ i <= Len(data) - 5

\* the sender's checksum covers the changed RTU byte: the frame left the
\* device with that byte already wrong
Reseal ==
    /\ origin = "device" /\ decoded.kind = "none"
    /\ InRTUBody(adu, tampered)
    /\ CheckSum(Slice(adu, 1, Len(adu) - 2)) # At(adu, Len(adu) - 2)
    /\ adu' = [adu EXCEPT ![Len(adu) - 1] = CheckSum(Slice(adu, 1, Len(adu) - 2))]
    /\ UNCHANGED <<SlaveID, serial, pdu, origin, tampered, decoded, sent, callerVars>>
    /\ UNCHANGED <<linkVars, raceVars>>

\* the PDU of a session's requests and of the answers to them
SessionPDU == [FunctionCode |-> 3, Data |-> <<0, 1>>]

\* mb.Encode(pdu) in a session
SessionEncode ==
    /\ encodes < MaxSession
    /\ EncodeStep(SessionPDU.FunctionCode, SessionPDU.Data)

\* the bytes Send returns for the request: the answer of a device, which
\* carries the request's sequence byte or (stale) the next one, the response
\* control code or another, its own serial number, and a payload or none
Reply(stale, cc, logger, empty) ==
    LET payload == IF empty THEN <<>> ELSE ResponsePayloadBytes(SlaveID, SessionPDU)
        seq == IF stale THEN (At(adu, 5) + 1) % 256 ELSE At(adu, 5)
    IN /\ origin = "encode" /\ decoded.kind = "none" /\ tampered = -1
       /\ adu' = FramedAs(cc, logger, Len(payload), seq, payload)
       /\ sent' = adu'
       /\ origin' = "reply"
       /\ UNCHANGED <<SlaveID, serial, pdu, tampered, decoded, callerVars>>
       /\ UNCHANGED <<linkVars, raceVars>>

\* mb.Verify(aduRequest, aduResponse)
VerifyCall ==
    /\ origin = "reply" /\ verified = "none" /\ decoded.kind # "panic"
    /\ verified' = Verify(aduRequest, adu)
    /\ UNCHANGED <<SlaveID, serial, pdu, adu, origin, tampered, decoded, sent,
                   aduRequest, encodes, parsed>>
    /\ UNCHANGED <<linkVars, raceVars>>

\* mb.Decode(adu)
DecodeCall ==
    /\ origin # "none" /\ decoded.kind = "none" /\ verified # "panic"
    /\ decoded' = Decode(adu)
    /\ UNCHANGED <<SlaveID, serial, pdu, adu, origin, tampered, sent, callerVars>>
    /\ UNCHANGED <<linkVars, raceVars>>

\* the caller is done with the frame
Drop ==
    /\ decoded.kind \notin {"none", "panic"} /\ verified # "panic"
    /\ pdu' = NoPDU
    /\ adu' = <<>>
    /\ origin' = "none"
    /\ tampered' = -1
    /\ decoded' = NotParsed
    /\ sent' = <<>>
    /\ aduRequest' = <<>>
    /\ verified' = "none"
    /\ parsed' = NoHeaderResult
    /\ UNCHANGED <<SlaveID, serial, encodes>>
    /\ UNCHANGED <<linkVars, raceVars>>

\* longest frame: header, response payload, checksum and end marker
MaxFrameLen == 11 + 18 + MaxData + 2

CodecNext ==
    \/ \E fc \in FunctionCodes, data \in DataSet : EncodeCall(fc, data)
    \/ \E fc \in FunctionCodes, data \in DataSet, wrong \in {0, 1} :
          Receive(fc, data, wrong)
    \/ \E cut \in 0..18, wrong \in {0, 1} : ReceiveShort(cut, wrong)
    \/ \E n \in 0..MaxFrameLen : Fragment(n)
    \/ \E i \in 0..MaxFrameLen, d \in TamperDeltas : Tamper(i, d)
    \/ Reseal
    \/ DecodeCall
    \/ Drop

(***************************************************************************)
(* The specifications.                                                     *)
(***************************************************************************)
Init == LinkInit /\ CodecIdle
Next == LinkNext
Spec == Init /\ [][Next]_vars

\* a step of a call that p has begun
Running(p) == pc[p] # "idle" /\ (Send(p) \/ Connect(p) \/ Close(p))

\* The scheduler runs every goroutine that can take a step, and every dial,
\* write and read returns (weak fairness of a begun call's steps); a caller
\* blocked in mu.Lock() gets the mutex when it is released again and again,
\* sync.Mutex handing it to a waiter that has waited long (strong fairness
\* of the lock steps).
Fairness ==
    \A p \in Procs :
        /\ WF_vars(Running(p))
        /\ SF_vars(SendLock(p))
        /\ SF_vars(ConnectLock(p))

SpecLive == Spec /\ Fairness

InitCodec == LinkInit /\ CodecInit
NextCodec == CodecNext
SpecCodec == InitCodec /\ [][NextCodec]_vars

\* the inputs given to ParseHeader: a start byte, the four header fields, and
\* the input cut to 10 bytes, whole, or followed by a further byte
HeaderInputs ==
    { SubSeq(<<start>> \o len \o cc \o seq \o ser \o <<7>>, 1, n) :
        start \in {165, 164, 0},
        len \in {<<14, 0>>, <<0, 1>>, <<255, 255>>},
        cc \in {<<16, 69>>, <<16, 21>>},
        seq \in {<<1, 2>>, <<255, 0>>},
        ser \in {<<18, 52, 86, 120>>, <<120, 86, 52, 18>>, <<255, 255, 255, 255>>},
        n \in {10, 11, 12} }

InitHeader ==
    /\ LinkInit
    /\ SlaveID = 1 /\ serial = 0 /\ encodes = 0
    /\ pdu = NoPDU
    /\ adu \in HeaderInputs
    /\ sent = adu
    /\ origin = "input"
    /\ tampered = -1
    /\ decoded = NotParsed
    /\ aduRequest = <<>>
    /\ verified = "none"
    /\ parsed = NoHeaderResult
    /\ NoEncode

\* ParseHeader(data)
ParseHeaderCall ==
    /\ origin = "input" /\ parsed.err = "none"
    /\ parsed' = ParseHeader(adu)
    /\ UNCHANGED <<SlaveID, serial, pdu, adu, origin, tampered, decoded, sent,
                   aduRequest, verified, encodes>>
    /\ UNCHANGED <<linkVars, raceVars>>

NextHeader == ParseHeaderCall
SpecHeader == InitHeader /\ [][NextHeader]_vars

(***************************************************************************)
(* Encode called by several callers at once.  The packager has no lock:    *)
(* mb.serial++ in getNextSerial (line 375) is a load and a store of the    *)
(* shared byte, and the return (line 376) reads it again or reuses the     *)
(* value just stored.                                                      *)
(***************************************************************************)
\* Encode begins; lines 271-283 build the payload from the caller's PDU
EncodeBegin(p) ==
    /\ epc[p] = "idle" /\ encodes < MaxRace
    /\ encodes' = encodes + 1
    /\ epc' = [epc EXCEPT ![p] = "load"]
    /\ UNCHANGED <<SlaveID, serial, pdu, adu, origin, tampered, decoded, sent,
                   aduRequest, verified, parsed, reg, issued>>
    /\ UNCHANGED linkVars

\* mb.serial++, the load
SerialLoad(p) ==
    /\ epc[p] = "load"
    /\ reg' = [reg EXCEPT ![p] = serial]
    /\ epc' = [epc EXCEPT ![p] = "store"]
    /\ UNCHANGED <<SlaveID, serial, pdu, adu, origin, tampered, decoded, sent,
                   callerVars, issued>>
    /\ UNCHANGED linkVars

\* mb.serial++, the store
SerialStore(p) ==
    /\ epc[p] = "store"
    /\ serial' = getNextSerial(reg[p])
    /\ epc' = [epc EXCEPT ![p] = "return"]
    /\ UNCHANGED <<SlaveID, pdu, adu, origin, tampered, decoded, sent,
                   callerVars, reg, issued>>
    /\ UNCHANGED linkVars

\* return mb.serial, and lines 284-296: the frame with that sequence byte
EncodeFinish(p) ==
    /\ epc[p] = "return"
    /\ \E seq \in {serial, getNextSerial(reg[p])} :
          issued' = Append(issued, Encode(SlaveID, LoggerSerial, seq, SessionPDU))
    /\ epc' = [epc EXCEPT ![p] = "idle"]
    /\ UNCHANGED <<SlaveID, serial, pdu, adu, origin, tampered, decoded, sent,
                   callerVars, reg>>
    /\ UNCHANGED linkVars

RaceNext ==
    \/ \E p \in Procs : EncodeBegin(p)
    \/ \E p \in Procs : SerialLoad(p)
    \/ \E p \in Procs : SerialStore(p)
    \/ \E p \in Procs : EncodeFinish(p)

InitRace == LinkInit /\ CodecIdle
SpecRace == InitRace /\ [][RaceNext]_vars

\* one caller's session with the packager: Encode, the reply, Verify, Decode
SessionNext ==
    \/ SessionEncode
    \/ \E stale \in BOOLEAN, cc \in {ControlCodeResponse, ControlCodeRequest},
          logger \in {LoggerSerial, OtherLogger}, empty \in BOOLEAN :
          Reply(stale, cc, logger, empty)
    \/ VerifyCall
    \/ DecodeCall
    \/ Drop

InitSession == LinkInit /\ CodecIdle
SpecSession == InitSession /\ [][SessionNext]_vars

(***************************************************************************)
(* Properties.                                                             *)
(***************************************************************************)
\* number of entries of the sequence q that are in the set S
RECURSIVE CountIn(_, _)
CountIn(q, S) ==
    IF q = <<>> THEN 0
    ELSE (IF Head(q) \in S THEN 1 ELSE 0) + CountIn(Tail(q), S)

Writes == {"w_ok", "w_EPIPE", "w_other", "w_short"}
Reads == {"r_ok", "r_EPIPE", "r_other"}

\* p is in Send, between taking the lock and giving it back
InExchange(p) ==
    pc[p] \in {"s_connect", "s_write1", "s_reconnect1", "s_redial1", "s_write2",
               "s_read1", "s_reconnect2", "s_redial2", "s_write3", "s_read2",
               "s_unlock"}

\* p's Send has set its results and is about to give the lock back
Returning(p) == pc[p] = "s_unlock"

\* Decode has run on a frame that Encode produced and nothing changed
DecodedOwnFrame == origin = "encode" /\ tampered = -1 /\ decoded.kind # "none"

\* C1 (as claimed): Decode on the bytes Encode produced succeeds and returns
\* the function code and data given to Encode.
C1_RoundTrip ==
    DecodedOwnFrame =>
        /\ decoded.kind = "ok"
        /\ decoded.Payload.ModbusRTUFrame = pdu

\* C1 (amended): Decode on the bytes Encode produced never returns the PDU;
\* it fails with the CRC-mismatch error.  Encode puts the RTU segment at
\* offset 26, after a 15-byte request prefix, so the function code and data
\* given to Encode are the frame's bytes at offset 27 and from offset 28 up to
\* the RTU's CRC, while Parse takes the segment from offset 25.
C1_EncodedFrameFailsCRC ==
    DecodedOwnFrame =>
        /\ decoded.kind = "error"
        /\ decoded.err = "CRC mismatch"
        /\ At(adu, 26) = SlaveID
        /\ At(adu, 27) = pdu.FunctionCode
        /\ Slice(adu, 28, Len(adu) - 4) = pdu.Data

C1_Witness == DecodedOwnFrame /\ Len(pdu.Data) >= 1

\* the outcome of the first write of p's Send, "none" before it
FirstWrite(p) ==
    IF InExchange(p) /\ Len(ops[p]) >= 2 THEN ops[p][2] ELSE "none"

\* C2: when the first write of Send fails with an error that is not a broken
\* pipe (a short write included), Send performs no read and no further socket
\* operation and returns that failure as an error.
C2_WriteFailureIsTerminal ==
    \A p \in Procs :
        FirstWrite(p) \in {"w_other", "w_short"} =>
            /\ Len(ops[p]) = 2
            /\ Returning(p) => ret[p].err # "nil"

\* reconnects and writes of p's current call
Reconnects(p) == CountIn(ops[p], {"close"})
WritesOf(p) == CountIn(ops[p], Writes)
ReadsOf(p) == CountIn(ops[p], Reads)

\* C3 (as claimed): one Send reconnects at most once and writes the request
\* at most twice.
C3_OneRecovery ==
    \A p \in Procs : Reconnects(p) <= 1 /\ WritesOf(p) <= 2

\* C3 (amended): one Send runs at most one recovery for the write and at most
\* one for the read: it reconnects at most twice, writes the request at most
\* three times and reads at most twice.
C3_OneRecoveryPerPhase ==
    \A p \in Procs : Reconnects(p) <= 2 /\ WritesOf(p) <= 3 /\ ReadsOf(p) <= 2

C3_Witness == \E p \in Procs : Reconnects(p) = 2 /\ WritesOf(p) = 3 /\ ReadsOf(p) = 2

\* the Send of C4: the link was connected, the first write failed with a
\* broken pipe, the dial and the second write succeeded, and so did the read
RecoveredWrite(p) ==
    /\ Returning(p)
    /\ ops[p] = <<"reuse", "w_EPIPE", "close", "dial_ok", "w_ok", "r_ok">>

\* C4: such a Send returns the bytes read with no error, and the request was
\* written whole exactly once, to the new connection, and to no other.
C4_RetryWritesOnce ==
    \A p \in Procs :
        RecoveredWrite(p) =>
            /\ ret[p] = [err |-> "nil", resp |-> req[p]]
            /\ conn # Nil
            /\ \A c \in ConnIds :
                  CountIn(wire[c], {req[p]}) = (IF c = conn THEN 1 ELSE 0)

C4_Witness == \E p \in Procs : RecoveredWrite(p)

\* C5: at most one Send is inside the exchange at any time, and it holds the
\* lock.
C5_OneExchange ==
    /\ Cardinality({p \in Procs : InExchange(p)}) <= 1
    /\ \A p \in Procs : InExchange(p) => mu = p

C5_Witness ==
    \E p, q \in Procs :
        /\ pc[p] = "s_read1" /\ Len(ops[p]) >= 2
        /\ pc[q] = "s_lock"

\* C6: when Close returns after closing the handle of a connected link, the
\* link holds no handle.
C6_CloseDisconnects ==
    [][\A p \in Procs : (pc[p] = "c_close" /\ pc'[p] = "idle") => conn' = Nil]_vars

\* C7: the handle is closed or replaced only in a step of the caller that
\* holds the lock.
C7_OnlyLockHolder ==
    [][(conn' # conn \/ closed' # closed) =>
          \E p \in Procs : mu = p /\ pc'[p] # pc[p]]_vars

\* C8 (as claimed): when the reconnect dial, the retried write or the retried
\* read fails, Send returns an error and the link holds no handle.
C8_FailedRecoveryDisconnects ==
    \A p \in Procs :
        (Returning(p) /\ ret[p].err \in {"reconnect", "write", "read"}) =>
            conn = Nil

\* C8 (amended): when the reconnect dial fails, Send returns an error and the
\* link holds no handle; when the retried write or the retried read fails,
\* Send returns an error and the link still holds the handle that the
\* reconnect dialed.
C8_FailedRecoveryState ==
    \A p \in Procs :
        Returning(p) =>
            /\ (Reconnects(p) >= 1 /\ ops[p][Len(ops[p])] = "dial_fail")
                  => (ret[p].err = "reconnect" /\ conn = Nil)
            /\ ret[p].err = "reconnect" => conn = Nil
            /\ ret[p].err \in {"write", "read"} => conn = dialed /\ conn # Nil

C8_Witness ==
    \E p \in Procs : Returning(p) /\ ret[p].err = "read" /\ conn # Nil

\* the error of the first check of Parse, in its order, that the frame fails:
\* total length, start marker, outer checksum, declared payload length, length
\* of the RTU segment, CRC of the RTU segment; "nil" when it passes them all
PayloadSpan(data) == Len(data) - 13
RTUSpan(data) == IF Len(data) >= 27 THEN Len(data) - 27 ELSE 0
FirstFailedCheck(data) ==
    IF Len(data) < 11 THEN "data too short"
    ELSE IF At(data, 0) # StartByte THEN "invalid Start byte"
    ELSE IF CheckSum(Slice(data, 1, Len(data) - 2)) # At(data, Len(data) - 2)
    THEN "checksum mismatch"
    ELSE IF Uint16LE(Slice(data, 1, 3)) # PayloadSpan(data) THEN "invalid Length"
    ELSE IF RTUSpan(data) < 5 THEN "invalid RTU frame"
    ELSE IF Slice(data, Len(data) - 4, Len(data) - 2)
               # CRCFromBytes(Slice(data, 25, Len(data) - 4))
    THEN "CRC mismatch"
    ELSE "nil"

\* C9: Parse returns the error of the first check, in the fixed order, that
\* the input fails, and a Response only when the input passes them all.
C9_FirstFailedCheck ==
    decoded.kind # "none" =>
        /\ decoded.kind \in {"ok", "error"}
        /\ decoded.err = FirstFailedCheck(adu)
        /\ decoded.kind = "ok" <=> FirstFailedCheck(adu) = "nil"

\* C10: a frame of at least 11 bytes that passes the start, checksum and
\* declared-length checks and has fewer than 5 bytes from offset 25 up to the
\* checksum byte gets the 'RTU frame too short' error.
C10_ShortRTUIsAnError ==
    (/\ decoded.kind # "none"
     /\ Len(adu) >= 11
     /\ At(adu, 0) = StartByte
     /\ CheckSum(Slice(adu, 1, Len(adu) - 2)) = At(adu, Len(adu) - 2)
     /\ Uint16LE(Slice(adu, 1, 3)) = PayloadSpan(adu)
     /\ RTUSpan(adu) < 5)
        => decoded = Error("invalid RTU frame")

\* a frame that Decode accepted as sent had one byte changed, and Decode ran
\* on the changed frame
DecodedChanged ==
    /\ decoded.kind # "none"
    /\ tampered >= 0
    /\ Len(adu) = Len(sent)
    /\ Decode(sent).kind = "ok"

\* the outer checksum byte is as sent / fits the changed bytes
ChecksumAsSent == At(adu, Len(adu) - 2) = At(sent, Len(sent) - 2)
ChecksumFits == CheckSum(Slice(adu, 1, Len(adu) - 2)) = At(adu, Len(adu) - 2)

\* C11: when one byte of the payload (offset 11 up to the checksum byte) of an
\* accepted frame is replaced by a different value and the checksum byte is
\* left unchanged, Decode fails with the checksum-mismatch error.
C11_PayloadChangeFailsChecksum ==
    (/\ DecodedChanged
     /\ 11 <= tampered /\ tampered <= Len(adu) - 3
     /\ ChecksumAsSent)
        => decoded = Error("checksum mismatch")

C11_Witness ==
    /\ DecodedChanged
    /\ 11 <= tampered /\ tampered < RTUOffset
    /\ ChecksumAsSent

\* C12 (as claimed): when one byte of the RTU segment before its CRC is
\* changed in an accepted frame and the two CRC bytes are left as they were,
\* Decode fails with the CRC-mismatch error.
C12_RTUChangeFailsCRC ==
    (DecodedChanged /\ InRTUBody(adu, tampered))
        => decoded = Error("CRC mismatch")

\* C12 (amended): such a change makes Decode fail with the CRC-mismatch error
\* when the outer checksum was recomputed over the changed bytes; when the
\* checksum byte was left as sent, Decode fails earlier, with the
\* checksum-mismatch error.  The two errors differ.
C12_RTUChangeFailsCRCWhenSealed ==
    (DecodedChanged /\ InRTUBody(adu, tampered))
        => /\ ChecksumFits => decoded = Error("CRC mismatch")
           /\ ChecksumAsSent => decoded = Error("checksum mismatch")
           /\ ChecksumFits \/ ChecksumAsSent
           /\ Error("CRC mismatch") # Error("checksum mismatch")

C12_Witness ==
    DecodedChanged /\ InRTUBody(adu, tampered) /\ ChecksumFits

\* Encode produced the frame at hand and nothing changed it
EncodedFrame == origin = "encode" /\ tampered = -1

\* C18: a frame produced by Encode starts with 0xA5 and ends with 0x15, its
\* length field is the number of bytes from offset 11 up to the checksum byte,
\* its control code is 0x4510, byte 6 is 0, bytes 7..10 are the logger serial
\* 0x12345678 little-endian, and its second-to-last byte is the sum mod 256 of
\* the bytes after the start marker and before it; Parse's length, start,
\* checksum and declared-length checks pass on it.
C18_EncodedFrameWellFormed ==
    EncodedFrame =>
        /\ Len(adu) >= 13
        /\ At(adu, 0) = 165
        /\ At(adu, Len(adu) - 1) = 21
        /\ At(adu, 1) + 256 * At(adu, 2) = Len(adu) - 13
        /\ <<At(adu, 3), At(adu, 4)>> = <<16, 69>>
        /\ At(adu, 6) = 0
        /\ <<At(adu, 7), At(adu, 8), At(adu, 9), At(adu, 10)>> = <<120, 86, 52, 18>>
        /\ At(adu, Len(adu) - 2) = SumBytes(adu, 2, Len(adu) - 2)
        /\ decoded.kind # "none" =>
              /\ decoded.kind # "panic"
              /\ decoded.err \notin {"data too short", "invalid Start byte",
                                     "checksum mismatch", "invalid Length"}

C18_Witness == EncodedFrame /\ decoded.kind # "none" /\ Len(pdu.Data) = 2

\* C19: a Response of Parse carries frame type = byte 11, status = byte 12,
\* the timing counters = the little-endian 32-bit values at offsets 13, 17 and
\* 21, function code = byte 26 (the second byte of the RTU segment at offset
\* 25) and data = the bytes from offset 27 up to the RTU's two CRC bytes.
C19_ResponseFields ==
    decoded.kind = "ok" =>
        /\ decoded.Payload.FrameType = At(adu, 11)
        /\ decoded.Payload.Status = At(adu, 12)
        /\ decoded.Payload.TotalWorkingTime
              = <<At(adu, 13) + 256 * At(adu, 14), At(adu, 15) + 256 * At(adu, 16)>>
        /\ decoded.Payload.PowerOnTime
              = <<At(adu, 17) + 256 * At(adu, 18), At(adu, 19) + 256 * At(adu, 20)>>
        /\ decoded.Payload.OffsetTime
              = <<At(adu, 21) + 256 * At(adu, 22), At(adu, 23) + 256 * At(adu, 24)>>
        /\ decoded.Payload.ModbusRTUFrame.FunctionCode = At(adu, 26)
        /\ decoded.Payload.ModbusRTUFrame.Data = SubSeq(adu, 28, Len(adu) - 4)

C19_Witness ==
    /\ decoded.kind = "ok"
    /\ decoded.Payload.TotalWorkingTime = <<16, 0>>
    /\ decoded.Payload.ModbusRTUFrame = [FunctionCode |-> 16, Data |-> <<1, 255>>]

\* C15: a Send that returns without error returns the response to the
\* request that this call wrote (the device answering the requests it
\* receives in order).
C15_OwnResponse ==
    \A p \in Procs :
        (Returning(p) /\ ret[p].err = "nil") => ret[p].resp = req[p]

\* position in ops[p] of the first read of p's Send: after the first write,
\* or after the reconnect, dial and second write that follow a broken pipe
FirstReadAt(p) == IF Len(ops[p]) >= 2 /\ ops[p][2] = "w_EPIPE" THEN 6 ELSE 3

\* p's Send has done its first read, after a write that succeeded
ReadAfterWrite(p) ==
    /\ InExchange(p)
    /\ Len(ops[p]) >= FirstReadAt(p)
    /\ ops[p][FirstReadAt(p) - 1] = "w_ok"

\* what p's Send did after its first read
AfterRead(p) == SubSeq(ops[p], FirstReadAt(p) + 1, Len(ops[p]))

Failures == {"dial_fail"} \cup (Writes \ {"w_ok"}) \cup (Reads \ {"r_ok"})

\* C16: after a successful write, a read that fails with a broken pipe is
\* followed by a reconnect, a write of the same request and a read, in that
\* order, and the failure of any of them ends the call with an error; a read
\* that fails otherwise is the call's last socket operation and the call
\* returns with that error.
C16_ReadRecovery ==
    \A p \in Procs :
        ReadAfterWrite(p) =>
            LET first == ops[p][FirstReadAt(p)]
                rest == AfterRead(p)
                n == Len(rest)
            IN /\ first = "r_other" =>
                     /\ n = 0
                     /\ Returning(p)
                     /\ ret[p].err = "rawread"
               /\ first = "r_EPIPE" =>
                     /\ n <= 4
                     /\ n = 0 => pc[p] = "s_reconnect2"
                     /\ n >= 1 => rest[1] = "close"
                     /\ n >= 2 => rest[2] \in {"dial_ok", "dial_fail"}
                     /\ n >= 3 => rest[2] = "dial_ok" /\ rest[3] \in Writes
                     /\ n >= 4 => rest[3] = "w_ok" /\ rest[4] \in Reads
                     /\ (n = 3 /\ rest[3] = "w_ok") =>
                           (conn # Nil /\ wire[conn] = <<req[p]>>)
                     /\ (n >= 2 /\ rest[n] \in Failures) =>
                           (Returning(p) /\ ret[p].err \in {"reconnect", "write", "read"})
                     /\ (n = 4 /\ rest[4] = "r_ok") =>
                           (Returning(p) /\ ret[p] = [err |-> "nil", resp |-> req[p]])

C16_Witness ==
    \E p \in Procs :
        /\ ReadAfterWrite(p)
        /\ ops[p][FirstReadAt(p)] = "r_EPIPE"
        /\ AfterRead(p) = <<"close", "dial_ok", "w_ok", "r_ok">>

\* the sockets the transporter dialed and nobody closed
OpenSockets == {c \in 1..dialed : c \notin closed}

\* C17: at most one socket dialed by the transporter is open, and it is the
\* one the transporter holds; no open socket was dropped.
C17_OneOpenSocket ==
    /\ Cardinality(OpenSockets) <= 1
    /\ \A c \in OpenSockets : c = conn

C17_Witness ==
    /\ dialed >= 2
    /\ OpenSockets = {dialed}
    /\ \E p \in Procs : pc[p] \in {"s_write2", "s_write3"}

\* Verify ran on a response of at least 11 bytes with a correct start marker
\* and a correct outer checksum
VerifiedSound ==
    /\ verified # "none"
    /\ Len(adu) >= 11
    /\ At(adu, 0) = StartByte
    /\ ChecksumFits

SequenceMatches == At(adu, 5) = At(aduRequest, 5)
ControlCodeMatches ==
    At(adu, 3) + 256 * At(adu, 4)
        = (At(aduRequest, 3) + 256 * At(aduRequest, 4) - 12288) % 65536
SerialMatches == SubSeq(adu, 8, 11) = SubSeq(aduRequest, 8, 11)

\* C13: on such a response Verify returns no error exactly when the sequence
\* byte, the control code (request's minus 0x3000) and the serial bytes all
\* match; when exactly one of them differs it returns the error of that
\* mismatch.
C13_VerifyMismatches ==
    VerifiedSound =>
        /\ verified = "nil" <=> (SequenceMatches /\ ControlCodeMatches /\ SerialMatches)
        /\ (~SequenceMatches /\ ControlCodeMatches /\ SerialMatches)
              => verified = "sequence number mismatch"
        /\ (SequenceMatches /\ ~ControlCodeMatches /\ SerialMatches)
              => verified = "control code mismatch"
        /\ (SequenceMatches /\ ControlCodeMatches /\ ~SerialMatches)
              => verified = "logger serial number mismatch"

\* C14: with the counter starting at 0, the frame of the k-th Encode carries
\* k mod 256 at offset 5 and the counter is k mod 256, also after Decode and
\* Verify ran.
C14_SequenceByte ==
    /\ serial = encodes % 256
    /\ aduRequest # <<>> => At(aduRequest, 5) = encodes % 256

C14_Witness ==
    /\ encodes = 256
    /\ At(aduRequest, 5) = 0
    /\ verified = "nil"
    /\ decoded.kind = "ok"

\* C20: on an 11-byte input starting with 0xA5, ParseHeader succeeds with
\* length, control code and sequence number = the little-endian 16-bit values
\* of bytes 1..2, 3..4 and 5..6 (the low byte of the sequence number being
\* byte 5) and serial = the little-endian 32-bit value of bytes 7..10; on an
\* 11-byte input starting with another byte it returns the bad-start-byte
\* error.
C20_HeaderFields ==
    (parsed.err # "none" /\ Len(adu) = 11) =>
        IF At(adu, 0) = 165
        THEN /\ parsed.err = "nil"
             /\ parsed.h.Start = 165
             /\ parsed.h.Length = At(adu, 1) + 256 * At(adu, 2)
             /\ parsed.h.ControlCode = At(adu, 3) + 256 * At(adu, 4)
             /\ parsed.h.SequenceNumber = At(adu, 5) + 256 * At(adu, 6)
             /\ parsed.h.SequenceNumber % 256 = At(adu, 5)
             /\ parsed.h.LoggerSerialNumber
                   = <<At(adu, 7) + 256 * At(adu, 8), At(adu, 9) + 256 * At(adu, 10)>>
        ELSE parsed = [err |-> "invalid Start byte", h |-> NoHeader]

\* the header of TestParseHeader: length 14, control code 0x4510, sequence
\* byte 1, serial 0x78563412
C20_Witness ==
    /\ adu = <<165, 14, 0, 16, 69, 1, 2, 18, 52, 86, 120>>
    /\ parsed.err = "nil"
    /\ parsed.h.Length = 14
    /\ parsed.h.ControlCode = 17680
    /\ parsed.h.LoggerSerialNumber = <<13330, 30806>>

\* C22: the Checksum field of a Response is the frame's checksum byte, the
\* second-to-last byte of the input, which Parse compared with the sum.
C22_ChecksumField ==
    decoded.kind = "ok" => decoded.Checksum = At(adu, Len(adu) - 2)

\* C23: Parse returns a Response or an error for every input; it never aborts
\* with a slice access out of range.
C23_ParseNeverAborts == decoded.kind # "panic"

\* C25: a frame that Parse accepts, and a response that Verify accepts, ends
\* with the end marker 0x15.
C25_EndMarkerChecked ==
    /\ decoded.kind = "ok" => At(adu, Len(adu) - 1) = EndByte
    /\ verified = "nil" => At(adu, Len(adu) - 1) = EndByte

\* C21: every Send that has begun returns to its caller, having released
\* the lock, and every caller waiting for the lock in Send or Connect gets it.
C21_SendReturns ==
    \A p \in Procs :
        /\ (pc[p] = "s_lock" \/ InExchange(p)) ~> (pc[p] = "idle" /\ mu # p)
        /\ (pc[p] \in {"s_lock", "k_lock"}) ~> (mu = p)

\* C24: when the concurrent Encode calls have returned, the counter has
\* advanced by their number (mod 256), and fewer than 256 of them returned
\* frames with pairwise different sequence bytes.
C24_NoLostUpdate ==
    (\A p \in Procs : epc[p] = "idle") =>
        /\ serial = encodes % 256
        /\ Len(issued) = encodes
        /\ \A i, j \in 1..Len(issued) :
              i # j => At(issued[i], 5) # At(issued[j], 5)

====
